---- MODULE Spec2Model ----
(***************************************************************************)
(* Model of the financial data processor: DataProcessor                    *)
(* (data_processor/data_processor.py) with the Python values it works on   *)
(* (dicts in insertion order, lists, binary floating point).               *)
(***************************************************************************)
EXTENDS Integers, Sequences, FiniteSets, TLC

(***************************************************************************)
(* Bounds of the model.                                                    *)
(***************************************************************************)
\* Longest transaction list handed to DataProcessor(transactions).
MaxLen == 3
\* Most calls of process_data on one instance.
MaxCalls == 2
\* Most direct calls of the update_* / check_* methods on one instance.
MaxDirect == 2
\* Significand width of the modelled binary floating point.  Python's float
\* is IEEE-754 binary64 (53 bits, round to nearest, ties to even); the model
\* keeps the rounding rule and scales the width down.
Precision == 14
\* Amounts are counted in units of 2^-FracBits dollars: the finest binary
\* fraction the modelled floats resolve.
FracBits == 2

(***************************************************************************)
(* Python float: round-to-nearest, ties-to-even arithmetic on multiples of *)
(* the unit, with Precision significant bits.                              *)
(***************************************************************************)
Abs(x) == IF x < 0 THEN 0 - x ELSE x

\* Number of bits of n >= 0 (0 for 0).
BitLen(n) == CHOOSE k \in 0..30 : n < 2^k /\ (k = 0 \/ n >= 2^(k-1))

\* Spacing of the floats around a magnitude n.
Ulp(n) == IF BitLen(n) <= Precision THEN 1 ELSE 2^(BitLen(n) - Precision)

\* num/den (num >= 0, den > 0) rounded to the nearest integer, ties to even.
RoundHalfEven(num, den) ==
    LET q == num \div den
        r == num % den
    IN  IF 2 * r < den THEN q
        ELSE IF 2 * r > den THEN q + 1
        ELSE IF q % 2 = 0 THEN q ELSE q + 1

\* The float nearest to the exact value x.
Fl(x) ==
    LET m == Abs(x)
        u == Ulp(m)
        r == RoundHalfEven(m, u) * u
    IN  IF x < 0 THEN 0 - r ELSE r

\* a + b, a - b on floats (operators + and - of float, also behind += and -=).
FAdd(a, b) == Fl(a + b)
FSub(a, b) == Fl(a - b)

\* total / count on a float total and a positive integer count.
FDiv(a, c) ==
    LET m == Abs(a)
        u == Ulp(m \div c)
        r == RoundHalfEven(m, c * u) * u
    IN  IF a < 0 THEN 0 - r ELSE r

\* One dollar, in units.
Dollar == 2^FracBits

(***************************************************************************)
(* Python dict: keys in insertion order.  A dict is a sequence of          *)
(* <<key, value>> pairs with pairwise different keys.                      *)
(***************************************************************************)
EmptyDict == << >>

Keys(d) == {d[n][1] : n \in 1..Len(d)}

\* key in d
Has(d, k) == k \in Keys(d)

\* d[key] for a key of d
Get(d, k) == d[CHOOSE n \in 1..Len(d) : d[n][1] = k][2]

\* d[key] = v: replaces the value in place, or appends a new key.
Put(d, k, v) ==
    IF Has(d, k)
    THEN [n \in 1..Len(d) |-> IF d[n][1] = k THEN <<k, v>> ELSE d[n]]
    ELSE Append(d, <<k, v>>)

(***************************************************************************)
(* Transaction records: dicts from field name to value.  The "Amount" of a *)
(* record is whatever the reader delivered: a number (exact, in units) or  *)
(* a text that is no number.                                               *)
(***************************************************************************)
Num(n) == [kind |-> "number", val |-> n]
Text == [kind |-> "text", val |-> 0]

\* What the readers can also deliver as an amount: None (a short csv row, a
\* JSON null) and a text that float() parses to nan.
None == [kind |-> "none", val |-> 0]
NaN == [kind |-> "nan", val |-> 0]

\* float(x): the nearest float of a number, nan for a text such as "nan";
\* ValueError on any other text, TypeError on None.
FloatRaises(a) == a.kind \in {"text", "none"}
Float(a) == Fl(a.val)

LARGE_TRANSACTION_THRESHOLD == 10000 * Dollar
UNCOMMON_CURRENCIES == <<"XRP", "LTC">>

\* The transaction types the validator lets through.
TYPES == {"deposit", "withdrawal", "transfer"}

\* A record with all seven fields, as csv.DictReader / json.load deliver it.
Record(id, account, type, amount, currency, description) ==
    << <<"Transaction ID", id>>,
       <<"Account number", account>>,
       <<"Date", "2023-03-01">>,
       <<"Transaction type", type>>,
       <<"Amount", amount>>,
       <<"Currency", currency>>,
       <<"Description", description>> >>

\* The record without one of its fields.
Without(t, k) == SelectSeq(t, LAMBDA p : p[1] # k)

\* Largest odd float (in units): adding a small amount to it must round.
Big == 2^Precision - 1
\* Half a dollar.
Tiny == Dollar \div 2

\* Well-formed records.  Amounts: the test fixtures (1000, 15000, 2000, 200),
\* the threshold itself and the next dollar above it, 1500, and two amounts
\* whose sum is no float.
WellFormed ==
    { Record("1", "1001", "deposit",    Num(1000 * Dollar),  "CAD", "Salary"),
      Record("2", "1002", "deposit",    Num(1500 * Dollar),  "CAD", "Salary"),
      Record("3", "1001", "withdrawal", Num(2000 * Dollar),  "XRP", "Crypto"),
      Record("4", "1001", "withdrawal", Num(200 * Dollar),   "CAD", "ATM"),
      Record("5", "1002", "transfer",   Num(15000 * Dollar), "LTC", "Crypto"),
      Record("6", "1001", "transfer",   Num(10000 * Dollar), "CAD", "Rent"),
      Record("7", "1002", "withdrawal", Num(10001 * Dollar), "CAD", "Car"),
      Record("8", "1001", "deposit",    Num(Big),            "CAD", "Bonus"),
      Record("9", "1001", "deposit",    Num(Tiny),           "CAD", "Coin") }

\* Records that break the input contract: no "Currency" key; an "Amount"
\* that is no number.
Malformed ==
    { Without(Record("10", "1002", "deposit", Num(300 * Dollar), "CAD", "Gift"),
              "Currency"),
      Record("11", "1002", "deposit", Text, "CAD", "Gift") }

Pool == WellFormed \cup Malformed

(***************************************************************************)
(* The methods of DataProcessor as functions of the aggregate they change. *)
(* Each has a companion saying which exception the call raises ("none" if  *)
(* it returns); a raising call changes nothing.                            *)
(***************************************************************************)
\* update_account_summary: lines 122-124 read the record before any write.
UpdateAccountSummaryRaises(t) ==
    IF ~Has(t, "Account number") THEN "KeyError"
    ELSE IF ~Has(t, "Transaction type") THEN "KeyError"
    ELSE IF ~Has(t, "Amount") THEN "KeyError"
    ELSE IF FloatRaises(Get(t, "Amount")) THEN "ValueError"
    ELSE "none"

NewSummary(account_number) ==
    [account_number |-> account_number, balance |-> 0,
     total_deposits |-> 0, total_withdrawals |-> 0]

\* Mutant: a withdrawal the balance does not cover is rejected.
UpdateAccountSummary_NoOverdraft(account_summaries, t) ==
    LET account_number == Get(t, "Account number")
        transaction_type == Get(t, "Transaction type")
        amount == Float(Get(t, "Amount"))
        created == IF ~Has(account_summaries, account_number)
                   THEN Put(account_summaries, account_number,
                            NewSummary(account_number))
                   ELSE account_summaries
        s == Get(created, account_number)
    IN  IF transaction_type = "deposit"
        THEN Put(created, account_number,
                 [s EXCEPT !.balance = FAdd(@, amount),
                           !.total_deposits = FAdd(@, amount)])
        ELSE IF transaction_type = "withdrawal" /\ s.balance >= amount
        THEN Put(created, account_number,
                 [s EXCEPT !.balance = FSub(@, amount),
                           !.total_withdrawals = FAdd(@, amount)])
        ELSE created

\* Mutant: a transfer is debited like a withdrawal.
UpdateAccountSummary_TransferDebits(account_summaries, t) ==
    LET account_number == Get(t, "Account number")
        transaction_type == Get(t, "Transaction type")
        amount == Float(Get(t, "Amount"))
        created == IF ~Has(account_summaries, account_number)
                   THEN Put(account_summaries, account_number,
                            NewSummary(account_number))
                   ELSE account_summaries
        s == Get(created, account_number)
    IN  IF transaction_type = "deposit"
        THEN Put(created, account_number,
                 [s EXCEPT !.balance = FAdd(@, amount),
                           !.total_deposits = FAdd(@, amount)])
        ELSE Put(created, account_number,
                 [s EXCEPT !.balance = FSub(@, amount),
                           !.total_withdrawals = FAdd(@, amount)])

\* Mutant: a withdrawal is taken off total_deposits.
UpdateAccountSummary_WithdrawalOffDeposits(account_summaries, t) ==
    LET account_number == Get(t, "Account number")
        transaction_type == Get(t, "Transaction type")
        amount == Float(Get(t, "Amount"))
        created == IF ~Has(account_summaries, account_number)
                   THEN Put(account_summaries, account_number,
                            NewSummary(account_number))
                   ELSE account_summaries
        s == Get(created, account_number)
    IN  IF transaction_type = "deposit"
        THEN Put(created, account_number,
                 [s EXCEPT !.balance = FAdd(@, amount),
                           !.total_deposits = FAdd(@, amount)])
        ELSE IF transaction_type = "withdrawal"
        THEN Put(created, account_number,
                 [s EXCEPT !.balance = FSub(@, amount),
                           !.total_deposits = FSub(@, amount)])
        ELSE created

\* Mutant: a transfer does not create the summary of a new account.
UpdateAccountSummary_NoSummaryForTransfer(account_summaries, t) ==
    LET account_number == Get(t, "Account number")
        transaction_type == Get(t, "Transaction type")
        amount == Float(Get(t, "Amount"))
        created == IF ~Has(account_summaries, account_number)
                   THEN Put(account_summaries, account_number,
                            NewSummary(account_number))
                   ELSE account_summaries
        s == Get(created, account_number)
    IN  IF transaction_type = "deposit"
        THEN Put(created, account_number,
                 [s EXCEPT !.balance = FAdd(@, amount),
                           !.total_deposits = FAdd(@, amount)])
        ELSE IF transaction_type = "withdrawal"
        THEN Put(created, account_number,
                 [s EXCEPT !.balance = FSub(@, amount),
                           !.total_withdrawals = FAdd(@, amount)])
        ELSE account_summaries

UpdateAccountSummary(account_summaries, t) ==
    LET account_number == Get(t, "Account number")
        transaction_type == Get(t, "Transaction type")
        amount == Float(Get(t, "Amount"))
        created == IF ~Has(account_summaries, account_number)
                   THEN Put(account_summaries, account_number,
                            NewSummary(account_number))
                   ELSE account_summaries
        s == Get(created, account_number)
    IN  IF transaction_type = "deposit"
        THEN Put(created, account_number,
                 [s EXCEPT !.balance = FAdd(@, amount),
                           !.total_deposits = FAdd(@, amount)])
        ELSE IF transaction_type = "withdrawal"
        THEN Put(created, account_number,
                 [s EXCEPT !.balance = FSub(@, amount),
                           !.total_withdrawals = FAdd(@, amount)])
        ELSE created

\* check_suspicious_transactions
CheckSuspiciousRaises(t) ==
    IF ~Has(t, "Amount") THEN "KeyError"
    ELSE IF FloatRaises(Get(t, "Amount")) THEN "ValueError"
    ELSE IF ~Has(t, "Currency") THEN "KeyError"
    ELSE "none"

InList(l, x) == \E n \in 1..Len(l) : l[n] = x

\* Mutant: the threshold itself counts as large.
IsSuspicious_Inclusive(t) ==
    LET amount == Float(Get(t, "Amount"))
        currency == Get(t, "Currency")
    IN  amount >= LARGE_TRANSACTION_THRESHOLD
        \/ InList(UNCOMMON_CURRENCIES, currency)

IsSuspicious(t) ==
    LET amount == Float(Get(t, "Amount"))
        currency == Get(t, "Currency")
    IN  amount > LARGE_TRANSACTION_THRESHOLD
        \/ InList(UNCOMMON_CURRENCIES, currency)

\* Mutant: the newest suspicious record is put first.
CheckSuspiciousTransactions_Prepend(suspicious_transactions, t) ==
    IF IsSuspicious(t)
    THEN <<t>> \o suspicious_transactions
    ELSE suspicious_transactions

\* Mutant: the record is appended once for each rule it matches.
CheckSuspiciousTransactions_PerRule(suspicious_transactions, t) ==
    LET amount == Float(Get(t, "Amount"))
        currency == Get(t, "Currency")
        large == IF amount > LARGE_TRANSACTION_THRESHOLD
                 THEN Append(suspicious_transactions, t)
                 ELSE suspicious_transactions
    IN  IF InList(UNCOMMON_CURRENCIES, currency) THEN Append(large, t) ELSE large

CheckSuspiciousTransactions(suspicious_transactions, t) ==
    IF IsSuspicious(t)
    THEN Append(suspicious_transactions, t)
    ELSE suspicious_transactions

\* update_transaction_statistics
UpdateTransactionStatisticsRaises(t) ==
    IF ~Has(t, "Transaction type") THEN "KeyError"
    ELSE IF ~Has(t, "Amount") THEN "KeyError"
    ELSE IF FloatRaises(Get(t, "Amount")) THEN "ValueError"
    ELSE "none"

NewBucket == [total_amount |-> 0, transaction_count |-> 0]

\* Mutant: the record that creates a bucket is not counted in it.
UpdateTransactionStatistics_CreateOnly(transaction_statistics, t) ==
    LET transaction_type == Get(t, "Transaction type")
        amount == Float(Get(t, "Amount"))
        b == Get(transaction_statistics, transaction_type)
    IN  IF ~Has(transaction_statistics, transaction_type)
        THEN Put(transaction_statistics, transaction_type, NewBucket)
        ELSE Put(transaction_statistics, transaction_type,
                 [b EXCEPT !.total_amount = FAdd(@, amount),
                           !.transaction_count = @ + 1])

UpdateTransactionStatistics(transaction_statistics, t) ==
    LET transaction_type == Get(t, "Transaction type")
        amount == Float(Get(t, "Amount"))
        created == IF ~Has(transaction_statistics, transaction_type)
                   THEN Put(transaction_statistics, transaction_type, NewBucket)
                   ELSE transaction_statistics
        b == Get(created, transaction_type)
    IN  Put(created, transaction_type,
            [b EXCEPT !.total_amount = FAdd(@, amount),
                      !.transaction_count = @ + 1])

\* get_average_transaction_amount: both lookups index the dict directly.
GetAverageRaises(transaction_statistics, transaction_type) ==
    IF ~Has(transaction_statistics, transaction_type) THEN "KeyError" ELSE "none"

\* Mutant: floor division (//) in place of true division (/).
GetAverageTransactionAmount_Floor(transaction_statistics, transaction_type) ==
    LET total_amount == Get(transaction_statistics, transaction_type).total_amount
        transaction_count ==
            Get(transaction_statistics, transaction_type).transaction_count
    IN  IF transaction_count = 0 THEN 0
        ELSE (total_amount \div (transaction_count * Dollar)) * Dollar

GetAverageTransactionAmount(transaction_statistics, transaction_type) ==
    LET total_amount == Get(transaction_statistics, transaction_type).total_amount
        transaction_count ==
            Get(transaction_statistics, transaction_type).transaction_count
    IN  IF transaction_count = 0 THEN 0 ELSE FDiv(total_amount, transaction_count)

(***************************************************************************)
(* State.  The three aggregates are objects on the heap, created once by   *)
(* __init__ and then only changed in place; everything else holds          *)
(* references (heap addresses) to them.                                    *)
(***************************************************************************)
VARIABLES
    transactions,   \* self.__transactions: the list given to the constructor
    heap,           \* address -> object (dict or list)
    pc,             \* where the running process_data call stands
    i,              \* index of the record the for loop of process_data is at
    calls,          \* process_data calls started so far
    direct,         \* method calls made directly (not by process_data) so far
    result,         \* the caller's reference to what process_data returned
    last,           \* the last method called
    err,            \* the exception the last call raised, or "none"
    ret,            \* what the last call that returns a value returned
    pre,            \* history: the aggregates when process_data was last called
    first,          \* history: the aggregates when the first call returned
    cnt,            \* history: per type, records update_transaction_statistics took
    tot,            \* history: per type, the running float sum of their amounts
    origin,         \* for each entry of the suspicious list, the object it
                    \* is: the index of a record of the input list, or 0
                    \* for the argument of a direct call
    file_path,      \* InputHandler.__file_path, as its parts between the dots
    exists,         \* whether a file is at file_path (path.isfile)
    rows,           \* what the csv / json reader parses from that file
    opened,         \* history: the open() calls made, as <<file, mode>>
    validated,      \* history: the number of data_validation calls made
    handler,        \* the OutputHandler's references to the three aggregates
    written,        \* the output files: file name -> rows written
    mainpc,         \* where main stands
    log             \* the records main has logged

\* Everything outside the DataProcessor instance.
iovars == <<file_path, exists, rows, opened, validated, handler, written,
            mainpc, log>>

vars == <<transactions, heap, pc, i, calls, direct, result, last, err, ret,
          pre, first, cnt, tot, origin, file_path, exists, rows, opened,
          validated, handler, written, mainpc, log>>

\* self.__account_summaries, self.__suspicious_transactions and
\* self.__transaction_statistics: bound in __init__, never rebound.
AccountSummariesRef == 1
SuspiciousTransactionsRef == 2
TransactionStatisticsRef == 3

\* The properties of DataProcessor return the objects themselves.
account_summaries == heap[AccountSummariesRef]
suspicious_transactions == heap[SuspiciousTransactionsRef]
transaction_statistics == heap[TransactionStatisticsRef]
input_data == transactions

\* The values of the three aggregates, for comparing states.
Aggregates(h) ==
    [account_summaries |-> h[AccountSummariesRef],
     suspicious_transactions |-> h[SuspiciousTransactionsRef],
     transaction_statistics |-> h[TransactionStatisticsRef]]

\* No result held yet (None).
NoResult ==
    [account_summaries |-> 0, suspicious_transactions |-> 0,
     transaction_statistics |-> 0]

NoSnapshot ==
    [valid |-> FALSE, account_summaries |-> EmptyDict,
     suspicious_transactions |-> << >>, transaction_statistics |-> EmptyDict]

Batches == UNION {[1..n -> Pool] : n \in 0..MaxLen}

\* DataProcessor(transactions).__init__
InitWith(batches) ==
    /\ transactions \in batches
    /\ heap = [a \in 1..3 |-> << >>]
    /\ pc = "idle"
    /\ i = 0
    /\ calls = 0
    /\ direct = 0
    /\ result = NoResult
    /\ last = "__init__"
    /\ err = "none"
    /\ ret = 0
    /\ pre = Aggregates([a \in 1..3 |-> << >>])
    /\ first = NoSnapshot
    /\ cnt = [ty \in TYPES |-> 0]
    /\ tot = [ty \in TYPES |-> 0]
    /\ origin = << >>

\* No input handler, no output handler and no run of main.
NoInputOutput ==
    /\ file_path = << >>
    /\ exists = FALSE
    /\ rows = << >>
    /\ opened = << >>
    /\ validated = 0
    /\ handler = NoResult
    /\ written = EmptyDict
    /\ mainpc = "none"
    /\ log = << >>

Init == InitWith(Batches) /\ NoInputOutput

(***************************************************************************)
(* process_data, one step per method call of its loop.                     *)
(***************************************************************************)
ProcessDataCall ==
    /\ pc = "idle"
    /\ calls < MaxCalls
    /\ calls' = calls + 1
    /\ pc' = "for"
    /\ i' = 0
    /\ last' = "process_data"
    /\ err' = "none"
    /\ ret' = 0
    /\ pre' = Aggregates(heap)
    /\ UNCHANGED <<transactions, heap, direct, result, first, cnt, tot, origin>>
    /\ UNCHANGED iovars

\* for transaction in self.__transactions: the next record, if any
ProcessDataIterate ==
    /\ pc = "for"
    /\ i < Len(transactions)
    /\ i' = i + 1
    /\ pc' = "update_account_summary"
    /\ UNCHANGED <<transactions, heap, calls, direct, result, last, err, ret,
                   pre, first, cnt, tot, origin>>
    /\ UNCHANGED iovars

\* The entries a call of check_suspicious_transactions appended, all of
\* them the object the call was given.
Appended(h, g, object) ==
    [k \in 1..(Len(g[SuspiciousTransactionsRef])
                - Len(h[SuspiciousTransactionsRef])) |-> object]

\* Mutant: the aggregates are put back as they were at the call.
Raise_Rollback(e) ==
    /\ err' = e
    /\ pc' = "idle"
    /\ heap' = [heap EXCEPT ![AccountSummariesRef] = pre.account_summaries,
                            ![SuspiciousTransactionsRef] = pre.suspicious_transactions,
                            ![TransactionStatisticsRef] = pre.transaction_statistics]
    /\ origin' = SubSeq(origin, 1, Len(pre.suspicious_transactions))
    /\ UNCHANGED <<cnt, tot>>

\* An exception leaves process_data at once; the heap stays as it is.
Raise(e) ==
    /\ err' = e
    /\ pc' = "idle"
    /\ UNCHANGED <<heap, cnt, tot, origin>>

ProcessDataUpdateAccountSummary ==
    /\ pc = "update_account_summary"
    /\ LET t == transactions[i]
           e == UpdateAccountSummaryRaises(t)
       IN  IF e # "none" THEN Raise(e)
           ELSE /\ heap' = [heap EXCEPT ![AccountSummariesRef] =
                                            UpdateAccountSummary(@, t)]
                /\ pc' = "check_suspicious_transactions"
                /\ UNCHANGED <<err, cnt, tot, origin>>
    /\ UNCHANGED <<transactions, i, calls, direct, result, last, ret, pre, first>>
    /\ UNCHANGED iovars

\* Mutant: a suspicious record is marked in place before it is listed.
ProcessDataCheckSuspicious_MarksRecord ==
    /\ pc = "check_suspicious_transactions"
    /\ LET t == transactions[i]
           e == CheckSuspiciousRaises(t)
       IN  IF e # "none" THEN Raise(e) /\ UNCHANGED transactions
           ELSE /\ transactions' =
                      IF IsSuspicious(t)
                      THEN [transactions EXCEPT ![i] = Put(@, "Suspicious", "yes")]
                      ELSE transactions
                /\ heap' = [heap EXCEPT ![SuspiciousTransactionsRef] =
                                            CheckSuspiciousTransactions(
                                                @, transactions'[i])]
                /\ origin' = origin \o Appended(heap, heap', i)
                /\ pc' = "update_transaction_statistics"
                /\ UNCHANGED <<err, cnt, tot>>
    /\ UNCHANGED <<i, calls, direct, result, last, ret, pre, first>>
    /\ UNCHANGED iovars

ProcessDataCheckSuspicious ==
    /\ pc = "check_suspicious_transactions"
    /\ LET t == transactions[i]
           e == CheckSuspiciousRaises(t)
       IN  IF e # "none" THEN Raise(e)
           ELSE /\ heap' = [heap EXCEPT ![SuspiciousTransactionsRef] =
                                            CheckSuspiciousTransactions(@, t)]
                /\ origin' = origin \o Appended(heap, heap', i)
                /\ pc' = "update_transaction_statistics"
                /\ UNCHANGED <<err, cnt, tot>>
    /\ UNCHANGED <<transactions, i, calls, direct, result, last, ret, pre, first>>
    /\ UNCHANGED iovars

\* The history of what update_transaction_statistics has taken.
Count(t) ==
    LET ty == Get(t, "Transaction type")
    IN  /\ cnt' = IF ty \in TYPES THEN [cnt EXCEPT ![ty] = @ + 1] ELSE cnt
        /\ tot' = IF ty \in TYPES
                  THEN [tot EXCEPT ![ty] = FAdd(@, Float(Get(t, "Amount")))]
                  ELSE tot

ProcessDataUpdateStatistics ==
    /\ pc = "update_transaction_statistics"
    /\ LET t == transactions[i]
           e == UpdateTransactionStatisticsRaises(t)
       IN  IF e # "none" THEN Raise(e)
           ELSE /\ heap' = [heap EXCEPT ![TransactionStatisticsRef] =
                                            UpdateTransactionStatistics(@, t)]
                /\ pc' = "for"
                /\ Count(t)
                /\ UNCHANGED <<err, origin>>
    /\ UNCHANGED <<transactions, i, calls, direct, result, last, ret, pre, first>>
    /\ UNCHANGED iovars

\* Mutant: the result holds copies of the three aggregates.
ProcessDataReturn_Copy ==
    /\ pc = "for"
    /\ i = Len(transactions)
    /\ pc' = "idle"
    /\ heap' = [a \in 1..6 |-> IF a <= 3 THEN heap[a] ELSE heap[a - 3]]
    /\ result' = [account_summaries |-> AccountSummariesRef + 3,
                  suspicious_transactions |-> SuspiciousTransactionsRef + 3,
                  transaction_statistics |-> TransactionStatisticsRef + 3]
    /\ first' = IF calls = 1 /\ direct = 0
                THEN [valid |-> TRUE,
                      account_summaries |-> account_summaries,
                      suspicious_transactions |-> suspicious_transactions,
                      transaction_statistics |-> transaction_statistics]
                ELSE first
    /\ UNCHANGED <<transactions, i, calls, direct, last, err, ret, pre, cnt, tot, origin>>
    /\ UNCHANGED iovars

\* return {"account_summaries": self.__account_summaries, ...}: a new dict
\* holding the three references.
ProcessDataReturn ==
    /\ pc = "for"
    /\ i = Len(transactions)
    /\ pc' = "idle"
    /\ result' = [account_summaries |-> AccountSummariesRef,
                  suspicious_transactions |-> SuspiciousTransactionsRef,
                  transaction_statistics |-> TransactionStatisticsRef]
    /\ first' = IF calls = 1 /\ direct = 0
                THEN [valid |-> TRUE,
                      account_summaries |-> account_summaries,
                      suspicious_transactions |-> suspicious_transactions,
                      transaction_statistics |-> transaction_statistics]
                ELSE first
    /\ UNCHANGED <<transactions, heap, i, calls, direct, last, err, ret, pre,
                   cnt, tot, origin>>
    /\ UNCHANGED iovars

(***************************************************************************)
(* get_average_transaction_amount(transaction_type)                        *)
(***************************************************************************)
GetAverage(transaction_type) ==
    /\ pc = "idle"
    /\ last' = "get_average_transaction_amount"
    /\ LET e == GetAverageRaises(transaction_statistics, transaction_type)
       IN  IF e # "none"
           THEN err' = e /\ ret' = 0
           ELSE /\ err' = "none"
                /\ ret' = GetAverageTransactionAmount(transaction_statistics,
                                                      transaction_type)
    /\ UNCHANGED <<transactions, heap, pc, i, calls, direct, result, pre,
                   first, cnt, tot, origin>>
    /\ UNCHANGED iovars

Next ==
    \/ ProcessDataCall
    \/ ProcessDataIterate
    \/ ProcessDataUpdateAccountSummary
    \/ ProcessDataCheckSuspicious
    \/ ProcessDataUpdateStatistics
    \/ ProcessDataReturn
    \/ \E ty \in TYPES : GetAverage(ty)

Spec == Init /\ [][Next]_vars

(***************************************************************************)
(* The public methods called directly, as the unit tests do.               *)
(***************************************************************************)
DirectCall(name) ==
    /\ pc = "idle"
    /\ direct < MaxDirect
    /\ direct' = direct + 1
    /\ last' = name
    /\ ret' = 0
    /\ UNCHANGED <<transactions, pc, i, calls, result, pre, first>>
    /\ UNCHANGED iovars

CallUpdateAccountSummary(t) ==
    /\ DirectCall("update_account_summary")
    /\ err' = UpdateAccountSummaryRaises(t)
    /\ heap' = IF err' # "none" THEN heap
               ELSE [heap EXCEPT ![AccountSummariesRef] =
                                     UpdateAccountSummary(@, t)]
    /\ UNCHANGED <<cnt, tot, origin>>

CallCheckSuspiciousTransactions(t) ==
    /\ DirectCall("check_suspicious_transactions")
    /\ err' = CheckSuspiciousRaises(t)
    /\ heap' = IF err' # "none" THEN heap
               ELSE [heap EXCEPT ![SuspiciousTransactionsRef] =
                                     CheckSuspiciousTransactions(@, t)]
    /\ origin' = origin \o Appended(heap, heap', 0)
    /\ UNCHANGED <<cnt, tot>>

CallUpdateTransactionStatistics(t) ==
    /\ DirectCall("update_transaction_statistics")
    /\ err' = UpdateTransactionStatisticsRaises(t)
    /\ IF err' # "none"
       THEN UNCHANGED <<heap, cnt, tot, origin>>
       ELSE /\ heap' = [heap EXCEPT ![TransactionStatisticsRef] =
                                        UpdateTransactionStatistics(@, t)]
            /\ Count(t)
            /\ UNCHANGED origin

\* The unit tests build DataProcessor([]) or DataProcessor([regular_deposit]).
TestBatches ==
    { << >>, <<Record("1", "1001", "deposit", Num(1000 * Dollar), "CAD", "Salary")>> }

InitDirect == InitWith(TestBatches) /\ NoInputOutput

NextDirect ==
    \/ ProcessDataCall
    \/ ProcessDataIterate
    \/ ProcessDataUpdateAccountSummary
    \/ ProcessDataCheckSuspicious
    \/ ProcessDataUpdateStatistics
    \/ ProcessDataReturn
    \/ \E t \in Pool : CallUpdateAccountSummary(t)
    \/ \E t \in Pool : CallCheckSuspiciousTransactions(t)
    \/ \E t \in Pool : CallUpdateTransactionStatistics(t)

SpecDirect == InitDirect /\ [][NextDirect]_vars

\* One pass of the loop of process_data on t: all three methods ran.
ApplyRecord(agg, t) ==
    [account_summaries |-> UpdateAccountSummary(agg.account_summaries, t),
     suspicious_transactions |->
         CheckSuspiciousTransactions(agg.suspicious_transactions, t),
     transaction_statistics |->
         UpdateTransactionStatistics(agg.transaction_statistics, t)]

\* The loop of process_data over the first k records.
RECURSIVE ApplyPrefix(_, _, _)
ApplyPrefix(agg, records, k) ==
    IF k = 0 THEN agg
    ELSE ApplyRecord(ApplyPrefix(agg, records, k - 1), records[k])

(***************************************************************************)
(* InputHandler.  A path is kept as its parts between the dots              *)
(* ("data.json" is <<"data", "json">>), which is what get_file_format      *)
(* splits it into.                                                         *)
(***************************************************************************)
REQUIRED_KEYS ==
    {"Transaction ID", "Account number", "Date", "Transaction type", "Amount",
     "Currency", "Description"}

\* self.__file_path.split(".")[-1]
GetFileFormat(path) == path[Len(path)]

\* An element of a JSON array that is no object (a string), kept as an
\* object that carries its class.
NotADict == << <<"__class__", "str">> >>
IsInstanceDict(x) == ~Has(x, "__class__")

\* amount < 0, which is false of nan.
AmountNegative(a) == a.kind = "number" /\ Fl(a.val) < 0

\* One pass of the loop of data_validation: the transaction is appended.
Keeps(transaction) ==
    /\ IsInstanceDict(transaction)
    /\ REQUIRED_KEYS \subseteq Keys(transaction)
    /\ ~FloatRaises(Get(transaction, "Amount"))
    /\ ~AmountNegative(Get(transaction, "Amount"))
    /\ Get(transaction, "Transaction type") \in TYPES

DataValidation(parsed) == SelectSeq(parsed, Keeps)

\* read_csv_data / read_json_data on file_path: path.isfile is asked before
\* open().
ReadData ==
    IF ~exists
    THEN [err |-> "FileNotFoundError", ret |-> << >>, opens |-> << >>]
    ELSE [err |-> "none", ret |-> rows, opens |-> << <<file_path, "r">> >>]

\* read_input_data on file_path.
ReadInputData ==
    LET file_format == GetFileFormat(file_path)
    IN  IF file_format = "csv" \/ file_format = "json"
        THEN IF ReadData.err # "none"
             THEN [err |-> ReadData.err, ret |-> << >>, opens |-> ReadData.opens,
                   validations |-> 0]
             ELSE [err |-> "none", ret |-> DataValidation(ReadData.ret),
                   opens |-> ReadData.opens, validations |-> 1]
        ELSE [err |-> "ValueError", ret |-> << >>, opens |-> << >>,
              validations |-> 0]

\* The paths handlers are built on: the one main uses, the ones of the
\* tests, an upper-case extension, and a file called "csv".
Paths ==
    { <<"input/input_data", "csv">>, <<"test_input_data", "json">>,
      <<"test_input_data", "txt">>, <<"input_data", "CSV">>, <<"csv">>,
      <<"dummy_path">> }

\* The longest list of parsed transactions.
MaxRows == 2

\* What a reader can deliver as one transaction: the four records of
\* test_data_validation, a zero amount, a record without "Currency", the
\* amounts None and nan, and a JSON element that is no object.
RawPool ==
    { Record("1", "1001", "deposit", Num(1000 * Dollar), "CAD", "Salary"),
      Record("2", "1002", "withdrawal", Num(0 - 500 * Dollar), "CAD", "Groceries"),
      Record("3", "1003", "invalid_type", Num(200 * Dollar), "CAD", "Shopping"),
      Record("4", "1004", "transfer", Text, "CAD", "Transfer to Savings"),
      Record("5", "1001", "transfer", Num(0), "CAD", "Nothing"),
      Without(Record("10", "1002", "deposit", Num(300 * Dollar), "CAD", "Gift"),
              "Currency"),
      Record("12", "1002", "deposit", None, "CAD", "Short row"),
      Record("13", "1002", "deposit", NaN, "CAD", "Gift"),
      NotADict }

RawBatches == UNION {[1..n -> RawPool] : n \in 0..MaxRows}

\* InputHandler(file_path): a path, a file there or none, and the
\* transactions the reader parses (csv.DictReader delivers dicts only).
InitInput ==
    /\ InitWith({<< >>})
    /\ file_path \in Paths
    /\ exists \in BOOLEAN
    /\ rows \in RawBatches
    /\ GetFileFormat(file_path) = "csv" =>
          \A n \in 1..Len(rows) : IsInstanceDict(rows[n])
    /\ opened = << >>
    /\ validated = 0
    /\ handler = NoResult
    /\ written = EmptyDict
    /\ mainpc = "none"
    /\ log = << >>

\* A call of a method of the input handler.
InputCall(name) ==
    /\ direct < MaxDirect
    /\ direct' = direct + 1
    /\ last' = name
    /\ UNCHANGED <<transactions, heap, pc, i, calls, result, pre, first, cnt, tot, origin>>
    /\ UNCHANGED <<file_path, exists, rows, handler, written, mainpc, log>>

CallReadInputData ==
    /\ InputCall("read_input_data")
    /\ err' = ReadInputData.err
    /\ ret' = ReadInputData.ret
    /\ opened' = opened \o ReadInputData.opens
    /\ validated' = validated + ReadInputData.validations

\* data_validation(transactions, VALIDATION_RULES) on the parsed transactions.
CallDataValidation ==
    /\ InputCall("data_validation")
    /\ err' = "none"
    /\ ret' = DataValidation(rows)
    /\ validated' = validated + 1
    /\ UNCHANGED opened

NextInput ==
    \/ CallReadInputData
    \/ CallDataValidation

SpecInput == InitInput /\ [][NextInput]_vars

(***************************************************************************)
(* OutputHandler, built on the three aggregates of a processor (it keeps   *)
(* the references it is given).                                            *)
(***************************************************************************)
VALID_FIELDS == <<"balance", "total_deposits", "total_withdrawals">>

\* dict.values(), in insertion order.
Values(d) == [n \in 1..Len(d) |-> d[n][2]]

FilterAccountSummariesRaises(filter_field) ==
    IF ~InList(VALID_FIELDS, filter_field) THEN "ValueError" ELSE "none"

\* Mutant: a value equal to filter_value is left out.
FilterAccountSummaries_Strict(summaries, filter_field, filter_value, filter_mode) ==
    SelectSeq(Values(summaries),
              LAMBDA account :
                  LET account_value == account[filter_field]
                  IN  \/ filter_mode /\ account_value > filter_value
                      \/ ~filter_mode /\ account_value < filter_value)

FilterAccountSummaries(summaries, filter_field, filter_value, filter_mode) ==
    SelectSeq(Values(summaries),
              LAMBDA account :
                  LET account_value == account[filter_field]
                  IN  \/ filter_mode /\ account_value >= filter_value
                      \/ ~filter_mode /\ account_value <= filter_value)

\* The header rows of the three files.
AccountSummariesHeader ==
    <<"Account number", "Balance", "Total Deposits", "Total Withdrawals">>
SuspiciousTransactionsHeader ==
    <<"Transaction ID", "Account number", "Date", "Transaction type", "Amount",
      "Currency", "Description">>
TransactionStatisticsHeader ==
    <<"Transaction type", "Total amount", "Transaction count">>

\* csv.writer writes str(value) for a number.
Str(x) == ToString(x)

\* The first entry of the suspicious list that lacks a field the writer
\* reads (KeyError); one past the end if there is none.
FirstUnwritable(suspicious) ==
    LET bad == {n \in 1..Len(suspicious) :
                   \E k \in 1..Len(SuspiciousTransactionsHeader) :
                       ~Has(suspicious[n], SuspiciousTransactionsHeader[k])}
    IN  IF bad = {} THEN Len(suspicious) + 1
        ELSE CHOOSE n \in bad : \A m \in bad : n <= m

WriteSuspiciousTransactionsRaises(suspicious) ==
    IF FirstUnwritable(suspicious) <= Len(suspicious) THEN "KeyError" ELSE "none"

\* Mutant: nothing is written, the header neither, when there is no account.
WriteAccountSummaries_NoHeaderWhenEmpty(summaries) ==
    IF Len(summaries) = 0 THEN << >>
    ELSE <<AccountSummariesHeader>> \o
         [n \in 1..Len(summaries) |->
             <<summaries[n][1], Str(summaries[n][2].balance),
               Str(summaries[n][2].total_deposits),
               Str(summaries[n][2].total_withdrawals)>>]

\* The rows write_account_summaries_to_csv writes: .items() in order.
WriteAccountSummaries(summaries) ==
    <<AccountSummariesHeader>> \o
    [n \in 1..Len(summaries) |->
        <<summaries[n][1], Str(summaries[n][2].balance),
          Str(summaries[n][2].total_deposits),
          Str(summaries[n][2].total_withdrawals)>>]

\* The rows write_suspicious_transactions_to_csv writes, up to the entry it
\* raises on.
WriteSuspiciousTransactions(suspicious) ==
    <<SuspiciousTransactionsHeader>> \o
    [n \in 1..(FirstUnwritable(suspicious) - 1) |->
        [k \in 1..Len(SuspiciousTransactionsHeader) |->
            IF SuspiciousTransactionsHeader[k] = "Amount"
            THEN Str(Get(suspicious[n], "Amount").val)
            ELSE Get(suspicious[n], SuspiciousTransactionsHeader[k])]]

\* The rows write_transaction_statistics_to_csv writes: .items() in order.
WriteTransactionStatistics(statistics) ==
    <<TransactionStatisticsHeader>> \o
    [n \in 1..Len(statistics) |->
        <<statistics[n][1], Str(statistics[n][2].total_amount),
          Str(statistics[n][2].transaction_count)>>]

\* The files the writers are given.
AccountSummariesFile == "output_data_account_summaries.csv"
SuspiciousTransactionsFile == "output_data_suspicious_transactions.csv"
TransactionStatisticsFile == "output_data_transaction_statistics.csv"

\* The records the handled aggregates come from: deposits and withdrawals
\* on two accounts, and a transfer.
OutputPool ==
    { Record("1", "1001", "deposit",    Num(1000 * Dollar),  "CAD", "Salary"),
      Record("2", "1002", "deposit",    Num(1500 * Dollar),  "CAD", "Salary"),
      Record("3", "1001", "withdrawal", Num(2000 * Dollar),  "XRP", "Crypto"),
      Record("4", "1001", "withdrawal", Num(200 * Dollar),   "CAD", "ATM"),
      Record("5", "1002", "transfer",   Num(15000 * Dollar), "LTC", "Crypto") }

OutputBatches == UNION {[1..n -> OutputPool] : n \in 0..MaxLen}

\* The arguments filter_account_summaries is called with.
FilterFields == {"balance", "total_deposits", "total_withdrawals", "account_number"}
FilterValues == {0 - 1000 * Dollar, 0, 1000 * Dollar}

\* OutputHandler(account_summaries, suspicious_transactions,
\* transaction_statistics) on the result of process_data on a batch.
InitOutput ==
    /\ transactions \in OutputBatches
    /\ \E agg \in {ApplyPrefix(Aggregates([a \in 1..3 |-> << >>]), transactions,
                               Len(transactions))} :
          /\ heap = [a \in 1..3 |->
                        IF a = AccountSummariesRef THEN agg.account_summaries
                        ELSE IF a = SuspiciousTransactionsRef
                        THEN agg.suspicious_transactions
                        ELSE agg.transaction_statistics]
          /\ pre = agg
          /\ origin = SelectSeq([n \in 1..Len(transactions) |-> n],
                                LAMBDA n : IsSuspicious(transactions[n]))
          /\ cnt = [ty \in TYPES |->
                       IF Has(agg.transaction_statistics, ty)
                       THEN Get(agg.transaction_statistics, ty).transaction_count
                       ELSE 0]
          /\ tot = [ty \in TYPES |->
                       IF Has(agg.transaction_statistics, ty)
                       THEN Get(agg.transaction_statistics, ty).total_amount
                       ELSE 0]
          /\ first = [valid |-> TRUE,
                      account_summaries |-> agg.account_summaries,
                      suspicious_transactions |-> agg.suspicious_transactions,
                      transaction_statistics |-> agg.transaction_statistics]
    /\ pc = "idle"
    /\ i = Len(transactions)
    /\ calls = 1
    /\ direct = 0
    /\ result = [account_summaries |-> AccountSummariesRef,
                 suspicious_transactions |-> SuspiciousTransactionsRef,
                 transaction_statistics |-> TransactionStatisticsRef]
    /\ handler = result
    /\ last = "__init__"
    /\ err = "none"
    /\ ret = 0
    /\ file_path = << >>
    /\ exists = FALSE
    /\ rows = << >>
    /\ opened = << >>
    /\ validated = 0
    /\ written = EmptyDict
    /\ mainpc = "none"
    /\ log = << >>

\* A call of a method of the output handler.
OutputCall(name) ==
    /\ handler # NoResult
    /\ direct < MaxDirect
    /\ direct' = direct + 1
    /\ last' = name
    /\ UNCHANGED <<transactions, pc, i, calls, result, pre, first, cnt, tot, origin>>
    /\ UNCHANGED <<file_path, exists, rows, validated, handler, mainpc, log>>

CallFilterAccountSummaries(filter_field, filter_value, filter_mode) ==
    /\ OutputCall("filter_account_summaries")
    /\ err' = FilterAccountSummariesRaises(filter_field)
    /\ ret' = IF err' # "none" THEN << >>
              ELSE FilterAccountSummaries(heap[handler.account_summaries],
                                          filter_field, filter_value, filter_mode)
    /\ UNCHANGED <<heap, opened, written>>

\* with open(file, "w", newline="") as output_file: the file is opened once,
\* emptied, and holds the rows written when the call ends.
WriteFile(file, file_rows) ==
    /\ opened' = Append(opened, <<file, "w">>)
    /\ written' = Put(written, file, file_rows)
    /\ ret' = 0
    /\ UNCHANGED heap

CallWriteAccountSummariesToCsv ==
    /\ OutputCall("write_account_summaries_to_csv")
    /\ err' = "none"
    /\ WriteFile(AccountSummariesFile,
                 WriteAccountSummaries(heap[handler.account_summaries]))

CallWriteSuspiciousTransactionsToCsv ==
    /\ OutputCall("write_suspicious_transactions_to_csv")
    /\ err' = WriteSuspiciousTransactionsRaises(
                  heap[handler.suspicious_transactions])
    /\ WriteFile(SuspiciousTransactionsFile,
                 WriteSuspiciousTransactions(
                     heap[handler.suspicious_transactions]))

CallWriteTransactionStatisticsToCsv ==
    /\ OutputCall("write_transaction_statistics_to_csv")
    /\ err' = "none"
    /\ WriteFile(TransactionStatisticsFile,
                 WriteTransactionStatistics(
                     heap[handler.transaction_statistics]))

NextOutput ==
    \/ \E filter_field \in FilterFields, filter_value \in FilterValues,
          filter_mode \in BOOLEAN :
           CallFilterAccountSummaries(filter_field, filter_value, filter_mode)
    \/ CallWriteAccountSummariesToCsv
    \/ CallWriteSuspiciousTransactionsToCsv
    \/ CallWriteTransactionStatisticsToCsv

SpecOutput == InitOutput /\ [][NextOutput]_vars

(***************************************************************************)
(* main: one run, a step per call in its try block.                        *)
(***************************************************************************)
\* path.join(current_directory, "input/input_data.csv")
MainInputPath == <<"input/input_data", "csv">>

\* The keyword arguments main gives to DataProcessor besides transactions.
MainKeywords == {"logging_level", "logging_format", "log_file"}

\* DataProcessor.__init__(self, transactions) takes no other argument.
DataProcessorInitRaises(keywords) ==
    IF keywords \subseteq {"transactions"} THEN "none" ELSE "TypeError"

\* logger.info(message)
Info(message) == [level |-> "INFO", message |-> message, exc_info |-> FALSE]

\* The exceptions the calls of the try block can raise.
Exceptions == {"FileNotFoundError", "ValueError", "TypeError", "KeyError"}

\* Mutant: every exception is logged by the generic clause.
ExceptClause_GenericOnly(e) ==
    [level |-> "ERROR", message |-> "An unexpected error occured",
     exc_info |-> TRUE]

\* except FileNotFoundError ... except Exception ...: the record logged.
ExceptClause(e) ==
    IF e = "FileNotFoundError"
    THEN [level |-> "ERROR", message |-> "Input file not found",
          exc_info |-> FALSE]
    ELSE [level |-> "ERROR", message |-> "An unexpected error occured",
          exc_info |-> TRUE]

\* main is started: the input file is there or not, with the rows
\* csv.DictReader would deliver.
InitMain ==
    /\ InitWith({<< >>})
    /\ file_path = MainInputPath
    /\ exists \in BOOLEAN
    /\ rows \in RawBatches
    /\ \A n \in 1..Len(rows) : IsInstanceDict(rows[n])
    /\ opened = << >>
    /\ validated = 0
    /\ handler = NoResult
    /\ written = EmptyDict
    /\ mainpc = "start"
    /\ log = << >>

\* What a step of main leaves alone.
MainFrame ==
    UNCHANGED <<heap, pc, i, calls, direct, result, pre, first, cnt, tot, origin,
                file_path, exists, rows, handler, written>>

\* setup_logging and the first log record.
MainStart ==
    /\ mainpc = "start"
    /\ mainpc' = "read"
    /\ last' = "main"
    /\ log' = Append(log, Info("Starting financial data processing system"))
    /\ MainFrame
    /\ UNCHANGED <<transactions, err, ret, opened, validated>>

\* transactions = InputHandler(input_file_path).read_input_data()
MainRead ==
    /\ mainpc = "read"
    /\ opened' = opened \o ReadInputData.opens
    /\ validated' = validated + ReadInputData.validations
    /\ err' = ReadInputData.err
    /\ ret' = ReadInputData.ret
    /\ IF ReadInputData.err # "none"
       THEN /\ mainpc' = "except"
            /\ log' = Append(log, Info("Reading input data from"))
       ELSE /\ mainpc' = "construct"
            /\ log' = log \o <<Info("Reading input data from"),
                               Info("Successfully read")>>
    /\ MainFrame
    /\ UNCHANGED <<transactions, last>>

\* data_processor = DataProcessor(transactions, logging_level = ..., ...)
MainConstruct ==
    /\ mainpc = "construct"
    /\ log' = Append(log, Info("Initializing DataProcessor"))
    /\ err' = DataProcessorInitRaises(MainKeywords)
    /\ IF err' # "none"
       THEN mainpc' = "except" /\ UNCHANGED transactions
       ELSE mainpc' = "process" /\ transactions' = ret
    /\ MainFrame
    /\ UNCHANGED <<last, ret, opened, validated>>

\* The except clause that matches the exception logs it.
MainExcept ==
    /\ mainpc = "except"
    /\ mainpc' = "finally"
    /\ log' = Append(log, ExceptClause(err))
    /\ MainFrame
    /\ UNCHANGED <<transactions, last, err, ret, opened, validated>>

\* finally: logging.shutdown(); main returns.
MainFinally ==
    /\ mainpc = "finally"
    /\ mainpc' = "done"
    /\ MainFrame
    /\ UNCHANGED <<transactions, last, err, ret, opened, validated, log>>

\* The DataProcessor call raises in every run, so lines 82-119 (process_data,
\* OutputHandler, the three writes) are never reached.
NextMain ==
    \/ MainStart
    \/ MainRead
    \/ MainConstruct
    \/ MainExcept
    \/ MainFinally

SpecMain == InitMain /\ [][NextMain]_vars

(***************************************************************************)
(* Properties.                                                             *)
(***************************************************************************)
AllWellFormed == \A n \in 1..Len(transactions) : transactions[n] \in WellFormed

\* The summary an account has before its first record: all zero.
SummaryBefore(d, a) ==
    IF Has(d, a) THEN Get(d, a)
    ELSE [account_number |-> a, balance |-> 0, total_deposits |-> 0,
          total_withdrawals |-> 0]

\* A step in which update_account_summary(t) ran and returned.
UpdateAccountSummaryStep(t) ==
    \/ /\ pc = "update_account_summary"
       /\ t = transactions[i]
       /\ ProcessDataUpdateAccountSummary
       /\ pc' = "check_suspicious_transactions"
    \/ /\ CallUpdateAccountSummary(t)
       /\ err' = "none"

\* A step in which check_suspicious_transactions(t) ran and returned.
CheckSuspiciousStep(t) ==
    \/ /\ pc = "check_suspicious_transactions"
       /\ t = transactions[i]
       /\ ProcessDataCheckSuspicious
       /\ pc' = "update_transaction_statistics"
    \/ /\ CallCheckSuspiciousTransactions(t)
       /\ err' = "none"

\* A step in which update_transaction_statistics(t) ran and returned.
UpdateStatisticsStep(t) ==
    \/ /\ pc = "update_transaction_statistics"
       /\ t = transactions[i]
       /\ ProcessDataUpdateStatistics
       /\ pc' = "for"
    \/ /\ CallUpdateTransactionStatistics(t)
       /\ err' = "none"

\* C1: on well-formed records every account summary has, in every state,
\* balance = total_deposits - total_withdrawals.
C1_BalanceIsDepositsMinusWithdrawals ==
    AllWellFormed =>
        \A n \in 1..Len(account_summaries) :
            LET s == account_summaries[n][2]
            IN  s.balance = FSub(s.total_deposits, s.total_withdrawals)

\* What update_account_summary(t) does to the account summaries.
C2_Effect(t) ==
    LET a == Get(t, "Account number")
        ty == Get(t, "Transaction type")
        amount == Float(Get(t, "Amount"))
        old == SummaryBefore(account_summaries, a)
        new == Get(account_summaries', a)
    IN  /\ Keys(account_summaries') = Keys(account_summaries) \cup {a}
        /\ ty = "deposit" =>
              /\ new.balance = FAdd(old.balance, amount)
              /\ new.total_deposits = FAdd(old.total_deposits, amount)
              /\ new.total_withdrawals = old.total_withdrawals
        /\ ty = "withdrawal" =>
              /\ new.balance = FSub(old.balance, amount)
              /\ new.total_withdrawals = FAdd(old.total_withdrawals, amount)
              /\ new.total_deposits = old.total_deposits
        /\ \A k \in Keys(account_summaries) \ {a} :
              Get(account_summaries', k) = Get(account_summaries, k)

\* C2: update_account_summary on a deposit of a adds a to the account's
\* balance and total_deposits and leaves total_withdrawals; on a withdrawal
\* it subtracts a from balance and adds a to total_withdrawals, leaving
\* total_deposits, whatever the balance (no overdraft check); the summaries
\* of all other accounts stay as they are.
C2_DepositAndWithdrawal ==
    [][\A t \in Pool : UpdateAccountSummaryStep(t) => C2_Effect(t)]_vars

\* A withdrawal was applied in full to an account that could not cover it.
C2_Witness ==
    /\ last = "update_account_summary"
    /\ err = "none"
    /\ \E n \in 1..Len(account_summaries) :
          /\ account_summaries[n][2].balance < 0
          /\ account_summaries[n][2].total_withdrawals > 0

\* What a transfer does to the account summaries and to its bucket.
C3_Effect(t) ==
    LET a == Get(t, "Account number")
    IN  /\ \A k \in Keys(account_summaries) :
              /\ Has(account_summaries', k)
              /\ Get(account_summaries', k) = Get(account_summaries, k)
        /\ Get(account_summaries', a).balance =
              SummaryBefore(account_summaries, a).balance
        /\ Get(account_summaries', a).total_deposits =
              SummaryBefore(account_summaries, a).total_deposits
        /\ Get(account_summaries', a).total_withdrawals =
              SummaryBefore(account_summaries, a).total_withdrawals

C3_Counted(t) ==
    LET old == IF Has(transaction_statistics, "transfer")
               THEN Get(transaction_statistics, "transfer").transaction_count
               ELSE 0
    IN  /\ Has(transaction_statistics', "transfer")
        /\ Get(transaction_statistics', "transfer").transaction_count = old + 1

IsTransfer(t) == Has(t, "Transaction type") /\ Get(t, "Transaction type") = "transfer"

\* C3: a transfer changes no account's balance, total_deposits or
\* total_withdrawals (the summaries of existing accounts are identical before
\* and after; a new account is all zero), and is counted in the statistics
\* bucket of "transfer".
C3_TransferIsStatisticsOnly ==
    [][\A t \in Pool : IsTransfer(t) =>
          /\ UpdateAccountSummaryStep(t) => C3_Effect(t)
          /\ UpdateStatisticsStep(t) => C3_Counted(t)]_vars

\* A transfer on an account that already had a balance has been processed.
C3_Witness ==
    /\ pc = "for"
    /\ i >= 2
    /\ IsTransfer(transactions[i])
    /\ Has(account_summaries, Get(transactions[i], "Account number"))
    /\ Get(account_summaries, Get(transactions[i], "Account number")).balance # 0
    /\ Has(transaction_statistics, "transfer")

\* The suspicion rule, as stated.
C4_Flagged(t) ==
    \/ Float(Get(t, "Amount")) > 10000 * Dollar
    \/ Get(t, "Currency") \in {"XRP", "LTC"}

\* C4: check_suspicious_transactions appends the record iff its amount is
\* strictly above 10000 or its currency is XRP or LTC, whatever its type and
\* the account state; otherwise the list is unchanged.
C4_SuspiciousIff ==
    [][\A t \in Pool : CheckSuspiciousStep(t) =>
          /\ C4_Flagged(t) =>
                suspicious_transactions' = Append(suspicious_transactions, t)
          /\ ~C4_Flagged(t) =>
                suspicious_transactions' = suspicious_transactions]_vars

\* A batch with a record of exactly 10000 in a common currency and a record
\* just above 10000 has been processed: the second is listed, the first not.
C4_Witness ==
    /\ pc = "idle"
    /\ last = "process_data"
    /\ err = "none"
    /\ \E n, m \in 1..Len(transactions) :
          /\ Get(transactions[n], "Amount") = Num(10000 * Dollar)
          /\ Get(transactions[n], "Currency") = "CAD"
          /\ ~InList(suspicious_transactions, transactions[n])
          /\ Get(transactions[m], "Amount") = Num(10001 * Dollar)
          /\ Get(transactions[m], "Currency") = "CAD"
          /\ InList(suspicious_transactions, transactions[m])

\* The buckets against the history; the buckets an update leaves alone.
C5_Counts ==
    \A ty \in TYPES :
        /\ Has(transaction_statistics, ty) <=> cnt[ty] > 0
        /\ Has(transaction_statistics, ty) =>
              /\ Get(transaction_statistics, ty).transaction_count = cnt[ty]
              /\ Get(transaction_statistics, ty).total_amount = tot[ty]

C5_Frame ==
    \A t \in Pool : UpdateStatisticsStep(t) =>
        \A ty \in Keys(transaction_statistics) \ {Get(t, "Transaction type")} :
            /\ Has(transaction_statistics', ty)
            /\ Get(transaction_statistics', ty) = Get(transaction_statistics, ty)

C6_AverageOfAbsentTypeIsZero ==
    [][\A ty \in TYPES :
          (GetAverage(ty) /\ ~Has(transaction_statistics, ty)) =>
              (err' = "none" /\ ret' = 0)]_vars

\* r is a float nearest to total / count.
C7_IsQuotient(r, total, count) ==
    /\ r = Fl(r)
    /\ 2 * Abs(r * count - total) <= count * Ulp(total \div count)

\* C7: for a type with a bucket, get_average_transaction_amount returns
\* total_amount / transaction_count (the float nearest to the quotient) and
\* changes none of the three aggregates.
C7_AverageIsTotalOverCount ==
    [][\A ty \in TYPES :
          (GetAverage(ty) /\ Has(transaction_statistics, ty)) =>
              /\ err' = "none"
              /\ C7_IsQuotient(ret', Get(transaction_statistics, ty).total_amount,
                               Get(transaction_statistics, ty).transaction_count)
              /\ Aggregates(heap') = Aggregates(heap)]_vars

\* Deposits of 1000 and 1500: the average of "deposit" came out as 1250.
C7_Witness ==
    /\ last = "get_average_transaction_amount"
    /\ err = "none"
    /\ Has(transaction_statistics, "deposit")
    /\ Get(transaction_statistics, "deposit") =
          [total_amount |-> 2500 * Dollar, transaction_count |-> 2]
    /\ ret = 1250 * Dollar

\* The second process_data call on an instance has returned, the first one
\* having run on the fresh instance.
SecondCallReturned ==
    /\ pc = "idle"
    /\ calls = 2
    /\ direct = 0
    /\ i = Len(transactions)
    /\ first.valid

\* C8: state is not reset between calls: a second process_data call on the
\* same instance doubles every bucket's total_amount and transaction_count and
\* every account's balance, total_deposits and total_withdrawals, and leaves
\* the suspicious list as the first call's list followed by itself.
C8_SecondCallDoubles ==
    (SecondCallReturned /\ AllWellFormed) =>
        /\ Keys(transaction_statistics) = Keys(first.transaction_statistics)
        /\ \A ty \in Keys(transaction_statistics) :
              LET b == Get(transaction_statistics, ty)
                  b1 == Get(first.transaction_statistics, ty)
              IN  /\ b.total_amount = 2 * b1.total_amount
                  /\ b.transaction_count = 2 * b1.transaction_count
        /\ Keys(account_summaries) = Keys(first.account_summaries)
        /\ \A a \in Keys(account_summaries) :
              LET s == Get(account_summaries, a)
                  s1 == Get(first.account_summaries, a)
              IN  /\ s.balance = 2 * s1.balance
                  /\ s.total_deposits = 2 * s1.total_deposits
                  /\ s.total_withdrawals = 2 * s1.total_withdrawals
        /\ suspicious_transactions =
              first.suspicious_transactions \o first.suspicious_transactions

\* What the caller reads through the result it holds.
ReadResult(h, r) ==
    [account_summaries |-> h[r.account_summaries],
     suspicious_transactions |-> h[r.suspicious_transactions],
     transaction_statistics |-> h[r.transaction_statistics]]

\* C9 as claimed: once returned, the contents of the result do not change
\* while the caller keeps it, whatever is processed afterwards.
C9_ResultIsSnapshot ==
    [][(result # NoResult /\ result' = result) =>
          ReadResult(heap', result') = ReadResult(heap, result)]_vars

\* C9 amended: the result holds the processor's own three aggregates, not
\* copies: whenever it is read, each of its parts is the processor's current
\* aggregate, records processed after the return included.
C9_ResultIsLiveView ==
    result # NoResult => ReadResult(heap, result) = Aggregates(heap)

\* A result was returned and the aggregates have changed since.
C9_Witness ==
    /\ result # NoResult
    /\ first.valid
    /\ calls = 2
    /\ account_summaries # first.account_summaries
    /\ suspicious_transactions # first.suspicious_transactions
    /\ transaction_statistics # first.transaction_statistics

\* The last process_data call raised.
ProcessDataFailed ==
    /\ pc = "idle"
    /\ last = "process_data"
    /\ err # "none"

\* C10 as claimed: a failed process_data call leaves the three aggregates as
\* they were when it was called.
C10_FailureIsAtomic ==
    ProcessDataFailed => Aggregates(heap) = pre

\* C10 amended: a process_data call that fails on record k is not undone:
\* records 1..k-1 stay applied in full, and of record k the steps before the
\* raising one stay applied (none if update_account_summary raised, the
\* account summary update if check_suspicious_transactions raised).
C10_FailureKeepsPrefix ==
    ProcessDataFailed =>
        LET done == ApplyPrefix(pre, transactions, i - 1)
            t == transactions[i]
        IN  Aggregates(heap) =
                IF UpdateAccountSummaryRaises(t) # "none" THEN done
                ELSE [done EXCEPT !.account_summaries =
                                      UpdateAccountSummary(@, t)]

\* process_data failed on its second record, in check_suspicious_transactions.
C10_Witness ==
    /\ ProcessDataFailed
    /\ i = 2
    /\ UpdateAccountSummaryRaises(transactions[i]) = "none"
    /\ Aggregates(heap) # pre

\* l is an initial part of m.
IsPrefix(l, m) == Len(l) <= Len(m) /\ SubSeq(m, 1, Len(l)) = l

\* The number of input records the running first process_data call, on a
\* fresh instance, has put through check_suspicious_transactions.
C11_Checked ==
    IF pc \in {"update_transaction_statistics", "for"} THEN i ELSE i - 1

\* While the first call runs and once it has returned, the list is the
\* flagged records among the input records checked so far, in input order.
C11_InInputOrder ==
    (calls = 1 /\ direct = 0 /\ err = "none" /\ (pc # "idle" \/ first.valid)) =>
        suspicious_transactions =
            SelectSeq(SubSeq(transactions, 1,
                             IF pc = "idle" THEN Len(transactions)
                             ELSE IF C11_Checked < 0 THEN 0 ELSE C11_Checked),
                      C4_Flagged)

\* C11: the suspicious list is append-only and in input order: process_data
\* takes the records strictly in the order of the input list, at every step
\* the list before the step is a prefix of the list after it, and after
\* process_data on a fresh instance the list is the subsequence of the input
\* made of exactly the records that satisfy the suspicion condition.
C11_SuspiciousAppendOnlyInOrder ==
    /\ []C11_InInputOrder
    /\ [][IsPrefix(suspicious_transactions, suspicious_transactions')]_vars
    /\ [][i' # i => (i' = i + 1 \/ (i' = 0 /\ pc = "idle"))]_vars

\* The first call returned on a batch whose first and third records are
\* suspicious and whose second is not: the list is the first, then the third.
C11_Witness ==
    /\ first.valid
    /\ calls = 1
    /\ pc = "idle"
    /\ Len(transactions) = 3
    /\ ~C4_Flagged(transactions[2])
    /\ transactions[1] # transactions[3]
    /\ suspicious_transactions = <<transactions[1], transactions[3]>>

\* The validity condition, as stated: a dict with all seven required keys,
\* an Amount that parses as a number >= 0, and one of the three types.
C12_Valid(x) ==
    /\ IsInstanceDict(x)
    /\ \A k \in {"Transaction ID", "Account number", "Date", "Transaction type",
                 "Amount", "Currency", "Description"} : Has(x, k)
    /\ Get(x, "Amount").kind = "number"
    /\ Get(x, "Amount").val >= 0
    /\ Get(x, "Transaction type") \in {"deposit", "withdrawal", "transfer"}

\* The precondition of the core on a record: none of its three methods
\* raises on it, and its amount is a non-negative number.
C12_CorePrecondition(t) ==
    /\ UpdateAccountSummaryRaises(t) = "none"
    /\ CheckSuspiciousRaises(t) = "none"
    /\ UpdateTransactionStatisticsRaises(t) = "none"
    /\ Get(t, "Amount").kind = "number"
    /\ Get(t, "Amount").val >= 0

\* C12: data_validation returns exactly the input records, in their order
\* and unmodified, that are dicts with all seven required keys, an Amount
\* that parses as a number >= 0 and a type among deposit, withdrawal and
\* transfer; every other record is dropped without raising, so every record
\* handed to the core satisfies the core's precondition.
C12_ValidationKeepsExactlyTheValid ==
    last = "data_validation" =>
        /\ err = "none"
        /\ ret = SelectSeq(rows, C12_Valid)
        /\ \A n \in 1..Len(ret) : C12_CorePrecondition(ret[n])

\* The extension of a path: what follows its last dot; none without a dot.
C13_Extension(path) == IF Len(path) >= 2 THEN path[Len(path)] ELSE ""

\* C13: read_input_data on a path whose extension is neither csv nor json
\* raises ValueError at once, whether or not the file exists: no file is
\* opened, no record validated, nothing aggregated; on a csv or json path
\* with no file it raises FileNotFoundError and returns no records.
C13_UnsupportedExtensionRaisesValueError ==
    [][CallReadInputData =>
          /\ C13_Extension(file_path) \notin {"csv", "json"} =>
                /\ err' = "ValueError"
                /\ ret' = << >>
                /\ opened' = opened
                /\ validated' = validated
                /\ heap' = heap
          /\ (C13_Extension(file_path) \in {"csv", "json"} /\ ~exists) =>
                /\ err' = "FileNotFoundError"
                /\ ret' = << >>
                /\ opened' = opened]_vars

\* The summaries the handler holds whose field compares as asked.
C14_Selected(filter_field, filter_value, filter_mode) ==
    {s \in {account_summaries[n][2] : n \in 1..Len(account_summaries)} :
        IF filter_mode THEN s[filter_field] >= filter_value
        ELSE s[filter_field] <= filter_value}

\* C14: filter_account_summaries(field, threshold, mode), for a field among
\* balance, total_deposits and total_withdrawals, returns exactly the account
\* summaries whose field is >= threshold when mode is true and exactly those
\* whose field is <= threshold when mode is false (a value equal to the
\* threshold is returned in both modes); for any other field it raises
\* ValueError and returns nothing; the stored summaries stay as they are.
C14_FilterByThreshold ==
    [][\A filter_field \in FilterFields, filter_value \in FilterValues,
          filter_mode \in BOOLEAN :
          CallFilterAccountSummaries(filter_field, filter_value, filter_mode) =>
              /\ filter_field \in {"balance", "total_deposits", "total_withdrawals"} =>
                    /\ err' = "none"
                    /\ {ret'[n] : n \in 1..Len(ret')} =
                          C14_Selected(filter_field, filter_value, filter_mode)
                    /\ Len(ret') =
                          Cardinality(C14_Selected(filter_field, filter_value,
                                                   filter_mode))
              /\ filter_field \notin {"balance", "total_deposits", "total_withdrawals"} =>
                    /\ err' = "ValueError"
                    /\ ret' = << >>
              /\ heap' = heap]_vars

\* A filter call returned one of two summaries, and a field of the returned
\* one equals a threshold the other summary is on the other side of.
C14_Witness ==
    /\ last = "filter_account_summaries"
    /\ err = "none"
    /\ Len(account_summaries) = 2
    /\ Len(ret) = 1
    /\ \E f \in {"balance", "total_deposits", "total_withdrawals"},
          v \in FilterValues, n \in 1..2 :
          /\ ret[1][f] = v
          /\ account_summaries[n][2] # ret[1]
          /\ account_summaries[n][2][f] # v

\* The three files main is to write.
C15_OutputFiles ==
    {"output_data_account_summaries", "output_data_suspicious_transactions",
     "output_data_transaction_statistics"}

\* C15: when the input file exists and holds well-formed records, a run of
\* main reads, then aggregates, then writes, and ends with all three output
\* files written; no output file is written before the aggregation is done.
C15_MainReadsAggregatesWrites ==
    /\ (/\ mainpc = "done"
        /\ exists
        /\ Len(rows) >= 1
        /\ \A n \in 1..Len(rows) : C12_Valid(rows[n])) =>
           /\ Keys(written) = C15_OutputFiles
           /\ err = "none"
    /\ written # EmptyDict => (result # NoResult /\ opened # << >>)

\* A run of main has ended in an error: the exception did not leave main,
\* its record is the last one logged, and no output file is written.
C16_ErrorEndsQuietly ==
    (mainpc = "done" /\ err # "none") =>
        /\ log[Len(log)] = ExceptClause(err)
        /\ log[Len(log)].level = "ERROR"
        /\ written = EmptyDict

C17_NonNegativeAmounts ==
    \A n \in 1..Len(transactions) :
        (Has(transactions[n], "Amount")
         /\ Get(transactions[n], "Amount").kind = "number") =>
            Get(transactions[n], "Amount").val >= 0

\* The totals and counts are non-negative.
C17_NonNegative ==
    /\ \A n \in 1..Len(account_summaries) :
          /\ account_summaries[n][2].total_deposits >= 0
          /\ account_summaries[n][2].total_withdrawals >= 0
    /\ \A n \in 1..Len(transaction_statistics) :
          /\ transaction_statistics[n][2].total_amount >= 0
          /\ transaction_statistics[n][2].transaction_count >= 0

\* No total and no count is smaller after a step than before it.
C17_NeverDecrease ==
    /\ \A a \in Keys(account_summaries) :
          /\ Has(account_summaries', a)
          /\ Get(account_summaries', a).total_deposits >=
                Get(account_summaries, a).total_deposits
          /\ Get(account_summaries', a).total_withdrawals >=
                Get(account_summaries, a).total_withdrawals
    /\ \A ty \in Keys(transaction_statistics) :
          /\ Has(transaction_statistics', ty)
          /\ Get(transaction_statistics', ty).total_amount >=
                Get(transaction_statistics, ty).total_amount
          /\ Get(transaction_statistics', ty).transaction_count >=
                Get(transaction_statistics, ty).transaction_count

\* C17: given non-negative amounts, every account's total_deposits and
\* total_withdrawals and every type's total_amount and transaction_count are
\* non-negative and never decrease from one state to the next; the balance
\* is the only aggregate that can decrease or be negative.
C17_TotalsAndCountsMonotonic ==
    /\ [](C17_NonNegativeAmounts => C17_NonNegative)
    /\ [][C17_NonNegativeAmounts => C17_NeverDecrease]_vars

\* process_data has returned, and an account's balance has gone below zero
\* while its totals grew.
C17_Witness ==
    /\ pc = "idle"
    /\ last = "process_data"
    /\ err = "none"
    /\ C17_NonNegativeAmounts
    /\ \E n \in 1..Len(account_summaries) :
          /\ account_summaries[n][2].balance < 0
          /\ account_summaries[n][2].total_deposits > 0
          /\ account_summaries[n][2].total_withdrawals >
                account_summaries[n][2].total_deposits
    /\ \E n \in 1..Len(transaction_statistics) :
          transaction_statistics[n][2].transaction_count >= 2

\* What a step does to the set of summaries: update_account_summary(t) adds
\* the account of t if it is new, as the all-zero summary t is then applied
\* to; nothing else adds or removes a summary.
C18_Created ==
    /\ \A t \in Pool : UpdateAccountSummaryStep(t) =>
          LET a == Get(t, "Account number")
              ty == Get(t, "Transaction type")
              amount == Float(Get(t, "Amount"))
          IN  /\ Keys(account_summaries') = Keys(account_summaries) \cup {a}
              /\ ~Has(account_summaries, a) =>
                    Get(account_summaries', a) =
                        [account_number |-> a,
                         balance |-> IF ty = "deposit" THEN FAdd(0, amount)
                                     ELSE IF ty = "withdrawal" THEN FSub(0, amount)
                                     ELSE 0,
                         total_deposits |-> IF ty = "deposit" THEN FAdd(0, amount)
                                            ELSE 0,
                         total_withdrawals |-> IF ty = "withdrawal"
                                               THEN FAdd(0, amount) ELSE 0]
    /\ (\A t \in Pool : ~UpdateAccountSummaryStep(t)) =>
          account_summaries' = account_summaries

\* An account has a summary iff a record of the input that refers to it has
\* been through update_account_summary (first call on a fresh instance).
C18_ExistsIffProcessed ==
    (calls = 1 /\ direct = 0 /\ pc # "idle") =>
        Keys(account_summaries) =
            {Get(transactions[n], "Account number") :
                n \in 1..(IF pc = "update_account_summary" THEN i - 1 ELSE i)}

\* C18: the three aggregates are empty at construction; an account summary
\* exists iff at least one record referring to the account has been
\* processed (a transfer counts, and creates an all-zero summary); it is
\* created with balance, total_deposits and total_withdrawals 0 and
\* account_number equal to its key, and once created it is never removed.
C18_SummaryExistsIffProcessed ==
    /\ [](/\ last = "__init__" =>
                (account_summaries = << >> /\ suspicious_transactions = << >>
                 /\ transaction_statistics = << >>)
          /\ C18_ExistsIffProcessed
          /\ \A n \in 1..Len(account_summaries) :
                account_summaries[n][2].account_number = account_summaries[n][1])
    /\ [][C18_Created]_vars

\* A transfer was the first record of its account: the account has an
\* all-zero summary, next to an account with a balance.
C18_Witness ==
    /\ pc = "idle"
    /\ last = "process_data"
    /\ err = "none"
    /\ calls = 1
    /\ Len(account_summaries) = 2
    /\ \E n \in 1..2 :
          /\ account_summaries[n][2].balance = 0
          /\ account_summaries[n][2].total_deposits = 0
          /\ account_summaries[n][2].total_withdrawals = 0
    /\ \E n \in 1..2 : account_summaries[n][2].balance # 0

\* The record matches both rules.
C19_MatchesBoth(t) ==
    /\ Float(Get(t, "Amount")) > 10000 * Dollar
    /\ Get(t, "Currency") \in {"XRP", "LTC"}

\* The number of entries of l equal to x.
C19_Occurrences(l, x) == Cardinality({n \in 1..Len(l) : l[n] = x})

\* One check of a record appends it at most once.
C19_OnePass ==
    \A t \in Pool : CheckSuspiciousStep(t) =>
        /\ Len(suspicious_transactions') <= Len(suspicious_transactions) + 1
        /\ C19_MatchesBoth(t) =>
              suspicious_transactions' = Append(suspicious_transactions, t)

\* After the first process_data call on a fresh instance: at most as many
\* entries as records, and each record of the batch as often as it is in
\* the batch at most.
C19_OnceEach ==
    (first.valid /\ calls = 1 /\ direct = 0) =>
        /\ Len(suspicious_transactions) <= Len(transactions)
        /\ \A n \in 1..Len(transactions) :
              C19_Occurrences(suspicious_transactions, transactions[n]) <=
                  C19_Occurrences(transactions, transactions[n])

\* C19: a record is in the suspicious list at most once even if it matches
\* several rules: one pass over a record that is both above the threshold
\* and in an uncommon currency appends it exactly once, so after processing
\* n records once each the list has at most n entries and no record of the
\* batch is in it twice.
C19_AtMostOncePerRecord == []C19_OnceEach /\ [][C19_OnePass]_vars

\* The first call returned on a batch of distinct records, one of which
\* matches both rules: it is in the list once.
C19_Witness ==
    /\ first.valid
    /\ calls = 1
    /\ direct = 0
    /\ Len(transactions) = 3
    /\ \A n, m \in 1..3 : n # m => transactions[n] # transactions[m]
    /\ \E n \in 1..3 :
          /\ C19_MatchesBoth(transactions[n])
          /\ C19_Occurrences(suspicious_transactions, transactions[n]) = 1
    /\ Len(suspicious_transactions) >= 2

\* A dict as the mapping it is, whatever the order of its keys.
AsMap(d) == [k \in Keys(d) |-> Get(d, k)]

\* The aggregates of a fresh instance after process_data on the records.
C20_Processed(records) ==
    ApplyPrefix(Aggregates([a \in 1..3 |-> << >>]), records, Len(records))

\* Two sets of account summaries, summed key by key.
C20_MergeSummaries(x, y) ==
    [k \in Keys(x) \cup Keys(y) |->
        IF Has(x, k) /\ Has(y, k)
        THEN [account_number |-> k,
              balance |-> FAdd(Get(x, k).balance, Get(y, k).balance),
              total_deposits |->
                  FAdd(Get(x, k).total_deposits, Get(y, k).total_deposits),
              total_withdrawals |->
                  FAdd(Get(x, k).total_withdrawals, Get(y, k).total_withdrawals)]
        ELSE IF Has(x, k) THEN Get(x, k) ELSE Get(y, k)]

\* Two sets of statistics, summed key by key.
C20_MergeStatistics(x, y) ==
    [k \in Keys(x) \cup Keys(y) |->
        IF Has(x, k) /\ Has(y, k)
        THEN [total_amount |->
                  FAdd(Get(x, k).total_amount, Get(y, k).total_amount),
              transaction_count |->
                  Get(x, k).transaction_count + Get(y, k).transaction_count]
        ELSE IF Has(x, k) THEN Get(x, k) ELSE Get(y, k)]

\* The orders the records of the input can be put in.
C20_Permutations ==
    {p \in [1..Len(transactions) -> 1..Len(transactions)] :
        \A n, m \in 1..Len(transactions) : n # m => p[n] # p[m]}

\* C20: aggregation is a commutative and associative merge: for any split of
\* a record sequence into two batches aggregated separately, summing the
\* account summaries and the statistics key by key and concatenating the
\* suspicious lists gives the three aggregates of processing the whole
\* sequence on one instance; the final account summaries and statistics are
\* the same for every permutation of the records.
C20_AggregationIsMerge ==
    (first.valid /\ calls = 1 /\ direct = 0 /\ AllWellFormed) =>
        /\ \A k \in 0..Len(transactions) :
              LET x == C20_Processed(SubSeq(transactions, 1, k))
                  y == C20_Processed(SubSeq(transactions, k + 1,
                                            Len(transactions)))
              IN  /\ C20_MergeSummaries(x.account_summaries, y.account_summaries)
                        = AsMap(first.account_summaries)
                  /\ C20_MergeStatistics(x.transaction_statistics,
                                         y.transaction_statistics)
                        = AsMap(first.transaction_statistics)
                  /\ x.suspicious_transactions \o y.suspicious_transactions
                        = first.suspicious_transactions
        /\ \A p \in C20_Permutations :
              LET z == C20_Processed([n \in 1..Len(transactions) |->
                                         transactions[p[n]]])
              IN  /\ AsMap(z.account_summaries) = AsMap(first.account_summaries)
                  /\ AsMap(z.transaction_statistics) =
                        AsMap(first.transaction_statistics)

\* Every entry of the suspicious list is a record of the input list, the
\* object itself, with the fields the input record has.
C21_EntriesAreInputRecords ==
    /\ Len(origin) = Len(suspicious_transactions)
    /\ \A n \in 1..Len(suspicious_transactions) :
          /\ origin[n] \in 1..Len(input_data)
          /\ suspicious_transactions[n] = input_data[origin[n]]

\* C21: the core never mutates its input: process_data,
\* update_account_summary, check_suspicious_transactions and
\* update_transaction_statistics leave every field of every transaction
\* record and the input list (its length, its order, its elements, as
\* input_data returns it) unchanged; the entries of the suspicious list are
\* the input records themselves, unaltered.
C21_InputNeverMutated ==
    /\ []C21_EntriesAreInputRecords
    /\ [][input_data' = input_data]_vars

\* process_data has run twice on three records: the input is as it was
\* given, and the list holds input records, the third among them.
C21_Witness ==
    /\ pc = "idle"
    /\ last = "process_data"
    /\ err = "none"
    /\ calls = 2
    /\ Len(input_data) = 3
    /\ Len(suspicious_transactions) >= 4
    /\ \E n \in 1..Len(origin) : origin[n] = 3
    /\ \E n \in 1..Len(origin) : origin[n] = 1

\* The call opened the file once, for writing, and left in it the header
\* followed by the given rows; the aggregates are as before.
C22_Wrote(file, header, expected) ==
    /\ err' = "none"
    /\ opened' = Append(opened, <<file, "w">>)
    /\ Has(written', file)
    /\ Len(Get(written', file)) = 1 + Len(expected)
    /\ Get(written', file)[1] = header
    /\ \A n \in 1..Len(expected) : Get(written', file)[n + 1] = expected[n]
    /\ \A other \in Keys(written) \ {file} :
          Has(written', other) /\ Get(written', other) = Get(written, other)
    /\ Aggregates(heap') = Aggregates(heap)

\* C22: each of the three writers opens its file once for writing and
\* writes the fixed header row first, then exactly one row per entry of its
\* aggregate in the aggregate's iteration order, so that 1 + the number of
\* entries rows are written (the header alone for an empty aggregate);
\* writing does not change the aggregates.
C22_WritersHeaderThenRowPerEntry ==
    [][/\ CallWriteAccountSummariesToCsv =>
             C22_Wrote("output_data_account_summaries.csv",
                       <<"Account number", "Balance", "Total Deposits",
                         "Total Withdrawals">>,
                       [n \in 1..Len(account_summaries) |->
                           <<account_summaries[n][1],
                             ToString(account_summaries[n][2].balance),
                             ToString(account_summaries[n][2].total_deposits),
                             ToString(account_summaries[n][2].total_withdrawals)>>])
       /\ CallWriteSuspiciousTransactionsToCsv =>
             C22_Wrote("output_data_suspicious_transactions.csv",
                       <<"Transaction ID", "Account number", "Date",
                         "Transaction type", "Amount", "Currency",
                         "Description">>,
                       [n \in 1..Len(suspicious_transactions) |->
                           LET t == suspicious_transactions[n]
                           IN  <<Get(t, "Transaction ID"), Get(t, "Account number"),
                                 Get(t, "Date"), Get(t, "Transaction type"),
                                 ToString(Get(t, "Amount").val),
                                 Get(t, "Currency"), Get(t, "Description")>>])
       /\ CallWriteTransactionStatisticsToCsv =>
             C22_Wrote("output_data_transaction_statistics.csv",
                       <<"Transaction type", "Total amount", "Transaction count">>,
                       [n \in 1..Len(transaction_statistics) |->
                           <<transaction_statistics[n][1],
                             ToString(transaction_statistics[n][2].total_amount),
                             ToString(transaction_statistics[n][2].transaction_count)>>])
      ]_vars

\* Two writers have run on the aggregates of a batch with two accounts and
\* a suspicious record: three rows of account summaries, and the header and
\* a row per suspicious record.
C22_Witness ==
    /\ last = "write_suspicious_transactions_to_csv"
    /\ err = "none"
    /\ Len(opened) = 2
    /\ Has(written, "output_data_account_summaries.csv")
    /\ Len(Get(written, "output_data_account_summaries.csv")) = 3
    /\ Len(account_summaries) = 2
    /\ Has(written, "output_data_suspicious_transactions.csv")
    /\ Len(suspicious_transactions) >= 1
    /\ Len(Get(written, "output_data_suspicious_transactions.csv")) =
          1 + Len(suspicious_transactions)

====
